---- MODULE Spec2Model ----
(***************************************************************************)
(* Model of the FHIR validation pipeline: src/validate.py                  *)
(* (validate_fhir_resource, _parse_operation_outcome, ValidationResult)    *)
(* and the environment helper src/environment.py (valid).                  *)
(*                                                                         *)
(* Python values are tagged records: [t |-> "none"], [t |-> "str", v],     *)
(* [t |-> "num", v], [t |-> "list", v], [t |-> "dict", v].  A string is a  *)
(* sequence of chunks whose concatenation is the text; a chunk is either   *)
(* the single character "/" or a piece of text without "/".                *)
(***************************************************************************)
EXTENDS Integers, Sequences, FiniteSets, TLC

VARIABLES pc, args, locals, request, postCount, elapsed, response, exc,
          jsonCalled, result, escaped, validOut

vars == <<pc, args, locals, request, postCount, elapsed, response, exc,
          jsonCalled, result, escaped, validOut>>

(* ------------------------------ bounds --------------------------------- *)
MaxIssues == 2
MaxTimeout == 2
MaxSlashes == 2

(* --------------------------- Python values ----------------------------- *)
None == [t |-> "none"]
Sq(chunks) == [t |-> "str", v |-> chunks]
S(chunk) == Sq(<<chunk>>)
N(n) == [t |-> "num", v |-> n]
L(seq) == [t |-> "list", v |-> seq]
D(rec) == [t |-> "dict", v |-> rec]
EmptyDict == [k \in {} |-> None]
Invalid == [t |-> "invalid"]
Text(chunk, denotes) == [t |-> "str", v |-> <<chunk>>, json |-> denotes]

Ok(val) == [raised |-> FALSE, val |-> val]
Raise(e) == [raised |-> TRUE, exc |-> e]

Truthy(x) ==
    CASE x.t = "none" -> FALSE
      [] x.t = "str"  -> x.v # <<>>
      [] x.t = "list" -> x.v # <<>>
      [] x.t = "dict" -> DOMAIN x.v # {}
      [] x.t = "num"  -> x.v # 0

isinstance(x, cls) == x.t = cls

get(d, key, default) == IF key \in DOMAIN d THEN d[key] ELSE default

\* f-string formatting "{x}" of a value
format(x) ==
    CASE x.t = "str"  -> x.v
      [] x.t = "num"  -> <<ToString(x.v)>>
      [] x.t = "none" -> <<"None">>
      [] OTHER        -> <<"<object>">>

\* str(e) of an exception
str_e(e) == <<e>>

RECURSIVE rstrip(_)
rstrip(s) ==
    IF s # <<>> /\ s[Len(s)] = "/" THEN rstrip(SubSeq(s, 1, Len(s) - 1)) ELSE s

RECURSIVE JoinStr(_, _)
JoinStr(sep, items) ==
    IF items = <<>> THEN <<>>
    ELSE IF Len(items) = 1 THEN items[1].v
    ELSE items[1].v \o sep \o JoinStr(sep, Tail(items))

\* sep.join(items): TypeError unless every item is a str
join(sep, items) ==
    IF \E i \in 1..Len(items) : items[i].t # "str"
    THEN Raise("TypeError")
    ELSE Ok(JoinStr(sep, items))

\* json.loads / response.json(): the text carries the value it denotes
json_loads(text) ==
    IF text.json.t = "invalid" THEN Raise("JSONDecodeError") ELSE Ok(text.json)

(* ---------------------------- exceptions ------------------------------- *)
RequestExceptions == {"ReadTimeout", "ConnectTimeout", "ConnectionError", "TooManyRedirects"}
IsTimeout(e) == e \in {"ReadTimeout", "ConnectTimeout"}
IsConnectionError(e) == e \in {"ConnectionError", "ConnectTimeout"}
IsRequestException(e) == e \in RequestExceptions
IsException(e) == e \in RequestExceptions \cup {"TypeError", "AttributeError", "ValueError", "JSONDecodeError"}

(* ----------------------------- messages -------------------------------- *)
MsgInvalidJson(e) == <<"Invalid JSON format: ">> \o str_e(e)
MsgServerInvalidJson == <<"Server returned invalid JSON response">>
MsgValidationFailed(status, text) ==
    <<"Validation failed with status ", ToString(status), ": ">> \o text
MsgNotFound ==
    <<"FHIR server validation endpoint not found - check server URL and resource type">>
MsgServerStatus(status, text) ==
    <<"FHIR server returned status ", ToString(status), ": ">> \o text
MsgTimeout(timeout) ==
    <<"Request to FHIR server timed out after ", ToString(timeout), " seconds">>
MsgConnection ==
    <<"Could not connect to FHIR server - check URL and network connectivity">>
MsgRequestFailed(e) == <<"Request to FHIR server failed: ">> \o str_e(e)
MsgUnexpected(e) == <<"Unexpected error during validation: ">> \o str_e(e)
MsgInvalidOutcome == <<"Invalid OperationOutcome format">>
MsgExpectedOutcome == <<"Expected OperationOutcome resource from validation endpoint">>
MsgSuccess == <<"Validation completed successfully">>

(* ------------------------- ValidationResult ---------------------------- *)
utcnow_isoformat == S("utcnow")

ValidationResult(is_valid, errors, warnings, information, resource_type, timestamp, operation_outcome) ==
    [is_valid |-> is_valid,
     errors |-> errors,
     warnings |-> warnings,
     information |-> information,
     resource_type |-> resource_type,
     timestamp |-> IF timestamp.t = "none" THEN utcnow_isoformat ELSE timestamp,
     operation_outcome |-> operation_outcome]

(* ----------------------- _parse_operation_outcome ----------------------- *)
\* message of one issue object
BuildMessage(issue) ==
    LET code == get(issue, "code", S("unknown"))
        details == get(issue, "details", D(EmptyDict))
        diagnostics == get(issue, "diagnostics", Sq(<<>>))
        location == get(issue, "location", L(<<>>))
        useDetails == Truthy(details) /\ isinstance(details, "dict")
        detail_text == IF useDetails THEN get(details.v, "text", Sq(<<>>)) ELSE Sq(<<>>)
        parts1 == IF useDetails /\ Truthy(detail_text) THEN <<detail_text>> ELSE <<>>
        parts2 == IF Truthy(diagnostics) THEN Append(parts1, diagnostics) ELSE parts1
        location_str == IF Truthy(location) THEN join(<<", ">>, location.v) ELSE Ok(<<>>)
    IN  IF location_str.raised THEN location_str
        ELSE LET parts3 == IF Truthy(location)
                           THEN Append(parts2, Sq(<<"Location: ">> \o location_str.val))
                           ELSE parts2
                 message_parts == IF parts3 = <<>>
                                  THEN <<Sq(<<"Validation issue (">> \o format(code) \o <<")">>)>>
                                  ELSE parts3
             IN  join(<<" - ">>, message_parts)

\* variant: an error message is inserted at the front of its bucket
Categorize_Prepend(acc, severity, message) ==
    IF severity \in {S("fatal"), S("error")}
    THEN [acc EXCEPT !.errors = <<(<<"Error: ">> \o message)>> \o @, !.is_valid = FALSE]
    ELSE IF severity = S("warning")
    THEN [acc EXCEPT !.warnings = Append(@, <<"Warning: ">> \o message)]
    ELSE IF severity = S("information")
    THEN [acc EXCEPT !.information = Append(@, <<"Info: ">> \o message)]
    ELSE acc

\* categorise one message by severity
Categorize(acc, severity, message) ==
    IF severity \in {S("fatal"), S("error")}
    THEN [acc EXCEPT !.errors = Append(@, <<"Error: ">> \o message), !.is_valid = FALSE]
    ELSE IF severity = S("warning")
    THEN [acc EXCEPT !.warnings = Append(@, <<"Warning: ">> \o message)]
    ELSE IF severity = S("information")
    THEN [acc EXCEPT !.information = Append(@, <<"Info: ">> \o message)]
    ELSE acc

\* the loop over the issue list
RECURSIVE ParseIssues(_, _)
ParseIssues(issues, acc) ==
    IF issues = <<>> THEN Ok(acc)
    ELSE LET issue == Head(issues) IN
         IF ~isinstance(issue, "dict") THEN ParseIssues(Tail(issues), acc)
         ELSE LET severity == get(issue.v, "severity", S("error"))
                  message == BuildMessage(issue.v)
              IN  IF message.raised THEN message
                  ELSE ParseIssues(Tail(issues), Categorize(acc, severity, message.val))

\* variant: the issue list is read without the empty-list default
parse_operation_outcome_NoDefault(operation_outcome) ==
    LET acc0 == [is_valid |-> TRUE, errors |-> <<>>, warnings |-> <<>>, information |-> <<>>] IN
    IF ~isinstance(operation_outcome, "dict")
    THEN Ok([acc0 EXCEPT !.errors = <<MsgInvalidOutcome>>, !.is_valid = FALSE])
    ELSE IF get(operation_outcome.v, "resourceType", None) # S("OperationOutcome")
    THEN Ok([acc0 EXCEPT !.errors = <<MsgExpectedOutcome>>, !.is_valid = FALSE])
    ELSE LET issues == get(operation_outcome.v, "issue", None) IN
         IF ~isinstance(issues, "list") THEN Raise("TypeError")
         ELSE LET r == ParseIssues(issues.v, acc0) IN
              IF r.raised THEN r
              ELSE IF ~Truthy(issues)
              THEN Ok([r.val EXCEPT !.information = Append(@, MsgSuccess)])
              ELSE r

\* Ok([is_valid, errors, warnings, information]) or a raised exception.
\* The issue field is a list, or a value that cannot be iterated (null, number).
_parse_operation_outcome(operation_outcome) ==
    LET acc0 == [is_valid |-> TRUE, errors |-> <<>>, warnings |-> <<>>, information |-> <<>>] IN
    IF ~isinstance(operation_outcome, "dict")
    THEN Ok([acc0 EXCEPT !.errors = <<MsgInvalidOutcome>>, !.is_valid = FALSE])
    ELSE IF get(operation_outcome.v, "resourceType", None) # S("OperationOutcome")
    THEN Ok([acc0 EXCEPT !.errors = <<MsgExpectedOutcome>>, !.is_valid = FALSE])
    ELSE LET issues == get(operation_outcome.v, "issue", L(<<>>)) IN
         IF ~isinstance(issues, "list") THEN Raise("TypeError")
         ELSE LET r == ParseIssues(issues.v, acc0) IN
              IF r.raised THEN r
              ELSE IF ~Truthy(issues)
              THEN Ok([r.val EXCEPT !.information = Append(@, MsgSuccess)])
              ELSE r

(* ------------------------ validate_fhir_resource ------------------------ *)
Locals0 ==
    [errors |-> <<>>, warnings |-> <<>>, information |-> <<>>,
     detected_resource_type |-> None, operation_outcome |-> None]

DetectResourceType(resource_dict) ==
    IF isinstance(resource_dict, "dict") /\ "resourceType" \in DOMAIN resource_dict.v
    THEN resource_dict.v.resourceType
    ELSE None

\* variant: the detected type is consulted before the override
BuildValidationUrl_DetectedFirst(fhir_server_url, resource_type, detected_resource_type) ==
    LET fhir_base_url == rstrip(fhir_server_url.v) IN
    IF Truthy(detected_resource_type)
    THEN fhir_base_url \o <<"/">> \o format(detected_resource_type) \o <<"/", "$validate">>
    ELSE IF Truthy(resource_type)
    THEN fhir_base_url \o <<"/">> \o format(resource_type) \o <<"/", "$validate">>
    ELSE fhir_base_url \o <<"/", "$validate">>

BuildValidationUrl(fhir_server_url, resource_type, detected_resource_type) ==
    LET fhir_base_url == rstrip(fhir_server_url.v) IN
    IF Truthy(resource_type)
    THEN fhir_base_url \o <<"/">> \o format(resource_type) \o <<"/", "$validate">>
    ELSE IF Truthy(detected_resource_type)
    THEN fhir_base_url \o <<"/">> \o format(detected_resource_type) \o <<"/", "$validate">>
    ELSE fhir_base_url \o <<"/", "$validate">>

Headers ==
    {<<"Content-Type", "application/fhir+json">>, <<"Accept", "application/fhir+json">>}

\* params dict as a set of <<key, value>> pairs
BuildParams(profile_url) ==
    IF Truthy(profile_url) THEN {<<"profile", profile_url>>} ELSE {}

\* Detection of the resource type, URL, headers and params: everything
\* between the payload parse and the POST.  kind "raise": an exception
\* inside the try before the POST; "post": the request handed to requests.post.
PrepareRequest(a, l0, resource_dict) ==
    LET l == [l0 EXCEPT !.detected_resource_type = DetectResourceType(resource_dict)] IN
    IF ~isinstance(a.fhir_server_url, "str")
    THEN [kind |-> "raise", exc |-> "AttributeError", locals |-> l]
    ELSE [kind |-> "post", locals |-> l,
          request |-> [url |-> BuildValidationUrl(a.fhir_server_url, a.resource_type,
                                                  l.detected_resource_type),
                       json |-> resource_dict,
                       headers |-> Headers,
                       params |-> BuildParams(a.profile_url),
                       timeout |-> a.timeout]]

\* variant: a payload parse failure is recorded and the pipeline carries on
Prepare_ContinueOnBadJson(a) ==
    LET parsed == IF isinstance(a.resource_json, "str")
                  THEN json_loads(a.resource_json)
                  ELSE Ok(a.resource_json)
    IN  IF parsed.raised
        THEN PrepareRequest(a, [Locals0 EXCEPT !.errors = <<MsgInvalidJson(parsed.exc)>>],
                            a.resource_json)
        ELSE PrepareRequest(a, Locals0, parsed.val)

\* From entry up to the POST.  kind "return": the early return of the
\* parse-failure handler; otherwise as PrepareRequest.
Prepare(a) ==
    LET parsed == IF isinstance(a.resource_json, "str")
                  THEN json_loads(a.resource_json)
                  ELSE Ok(a.resource_json)
    IN  IF parsed.raised
        THEN [kind |-> "return",
              result |-> ValidationResult(FALSE, <<MsgInvalidJson(parsed.exc)>>,
                                          <<>>, <<>>, None, None, None)]
        ELSE PrepareRequest(a, Locals0, parsed.val)

\* variant: the parsed body is recorded only after the parser has returned
OutcomeBlock_LateAssign(l, resp) ==
    LET j == json_loads(resp) IN
    IF j.raised THEN [locals |-> l, exc |-> j.exc, json_called |-> TRUE]
    ELSE LET p == _parse_operation_outcome(j.val) IN
         IF p.raised THEN [locals |-> l, exc |-> p.exc, json_called |-> TRUE]
         ELSE [locals |-> [l EXCEPT !.operation_outcome = j.val,
                                    !.errors = @ \o p.val.errors,
                                    !.warnings = @ \o p.val.warnings,
                                    !.information = @ \o p.val.information],
               exc |-> "none", json_called |-> TRUE]

\* body of the inner try of the 200/400/422 branches
OutcomeBlock(l, resp) ==
    LET j == json_loads(resp) IN
    IF j.raised THEN [locals |-> l, exc |-> j.exc, json_called |-> TRUE]
    ELSE LET l1 == [l EXCEPT !.operation_outcome = j.val]
             p == _parse_operation_outcome(j.val)
         IN  IF p.raised THEN [locals |-> l1, exc |-> p.exc, json_called |-> TRUE]
             ELSE [locals |-> [l1 EXCEPT !.errors = @ \o p.val.errors,
                                         !.warnings = @ \o p.val.warnings,
                                         !.information = @ \o p.val.information],
                   exc |-> "none", json_called |-> TRUE]

\* inner "except json.JSONDecodeError" with the given message
CatchJsonDecode(b, msg) ==
    IF b.exc = "JSONDecodeError"
    THEN [b EXCEPT !.locals.errors = Append(@, msg), !.exc = "none"]
    ELSE b

\* variant: status 404 is handled like 400
HandleResponse_Parse404(l, resp) ==
    LET status == resp.status_code IN
    IF status = 200
    THEN CatchJsonDecode(OutcomeBlock(l, resp), MsgServerInvalidJson)
    ELSE IF status \in {400, 404, 422}
    THEN CatchJsonDecode(OutcomeBlock(l, resp), MsgValidationFailed(status, resp.text))
    ELSE [locals |-> [l EXCEPT !.errors = Append(@, MsgServerStatus(status, resp.text))],
          exc |-> "none", json_called |-> FALSE]

\* branching on response.status_code
HandleResponse(l, resp) ==
    LET status == resp.status_code IN
    IF status = 200
    THEN CatchJsonDecode(OutcomeBlock(l, resp), MsgServerInvalidJson)
    ELSE IF status = 400
    THEN CatchJsonDecode(OutcomeBlock(l, resp), MsgValidationFailed(status, resp.text))
    ELSE IF status = 404
    THEN [locals |-> [l EXCEPT !.errors = Append(@, MsgNotFound)],
          exc |-> "none", json_called |-> FALSE]
    ELSE IF status = 422
    THEN CatchJsonDecode(OutcomeBlock(l, resp), MsgValidationFailed(status, resp.text))
    ELSE [locals |-> [l EXCEPT !.errors = Append(@, MsgServerStatus(status, resp.text))],
          exc |-> "none", json_called |-> FALSE]

\* variant: the outer try lacks the final catch-all clause
ExceptHandlers_NoCatchAll(l, e, timeout) ==
    IF e = "none" THEN [locals |-> l, escaped |-> FALSE]
    ELSE IF IsTimeout(e)
    THEN [locals |-> [l EXCEPT !.errors = Append(@, MsgTimeout(timeout))], escaped |-> FALSE]
    ELSE IF IsConnectionError(e)
    THEN [locals |-> [l EXCEPT !.errors = Append(@, MsgConnection)], escaped |-> FALSE]
    ELSE IF IsRequestException(e)
    THEN [locals |-> [l EXCEPT !.errors = Append(@, MsgRequestFailed(e))], escaped |-> FALSE]
    ELSE [locals |-> l, escaped |-> TRUE]

\* the except clauses of the outer try, in source order
ExceptHandlers(l, e, timeout) ==
    IF e = "none" THEN [locals |-> l, escaped |-> FALSE]
    ELSE IF IsTimeout(e)
    THEN [locals |-> [l EXCEPT !.errors = Append(@, MsgTimeout(timeout))], escaped |-> FALSE]
    ELSE IF IsConnectionError(e)
    THEN [locals |-> [l EXCEPT !.errors = Append(@, MsgConnection)], escaped |-> FALSE]
    ELSE IF IsRequestException(e)
    THEN [locals |-> [l EXCEPT !.errors = Append(@, MsgRequestFailed(e))], escaped |-> FALSE]
    ELSE IF IsException(e)
    THEN [locals |-> [l EXCEPT !.errors = Append(@, MsgUnexpected(e))], escaped |-> FALSE]
    ELSE [locals |-> l, escaped |-> TRUE]

\* variant: validity is derived from the wrong bucket
FinalResult_WarningsDecide(l) ==
    ValidationResult(Len(l.warnings) = 0, l.errors, l.warnings, l.information,
                     l.detected_resource_type, None, l.operation_outcome)

\* the final return
FinalResult(l) ==
    ValidationResult(Len(l.errors) = 0, l.errors, l.warnings, l.information,
                     l.detected_resource_type, None, l.operation_outcome)

(* ----------------------------- environment ------------------------------ *)
getattr(obj, name) == IF name \in DOMAIN obj THEN Ok(obj[name]) ELSE Raise("AttributeError")

valid(validation_result) == getattr(validation_result, "valid")

(* ------------------------------- inputs --------------------------------- *)
\* resource_json: a string (JSON text) or a dictionary
Payloads ==
    { Text("{not json", Invalid),
      Text("{\"resourceType\": \"Patient\"}", D([resourceType |-> S("Patient")])),
      Text("[]", L(<<>>)),
      D([resourceType |-> S("Observation"), status |-> S("final")]),
      D([resourceType |-> Sq(<<>>)]),
      D([id |-> S("p1")]) }

BaseUrl == <<"https:", "/", "/", "example.org", "/", "fhir">>

\* fhir_server_url: the base with 0..MaxSlashes trailing separators, or None
ServerUrls ==
    { Sq(BaseUrl \o [i \in 1..n |-> "/"]) : n \in 0..MaxSlashes } \cup {None}

\* resource_type override
ResourceTypes == {None, Sq(<<>>), S("Patient")}

ProfileUrl ==
    Sq(<<"http:", "/", "/", "example.org", "/", "StructureDefinition", "/", "p1">>)

ProfileUrls == {None, ProfileUrl}

Timeouts == 1..MaxTimeout

(* --------------------------- server responses --------------------------- *)
IssuePool ==
    { D([severity |-> S("error"), code |-> S("invalid"),
         details |-> D([text |-> S("Bad value")]),
         diagnostics |-> S("Patient.name is required"),
         location |-> L(<<S("Patient.name"), S("Patient.id")>>)]),
      D([severity |-> S("fatal"), details |-> D([text |-> S("Cannot process")])]),
      D([severity |-> S("warning"), diagnostics |-> S("Missing optional field")]),
      D([severity |-> S("information"), code |-> S("informational")]),
      D([diagnostics |-> S("No severity given")]),
      D([severity |-> S("debug"), diagnostics |-> S("Trace")]),
      S("not an object"),
      D([severity |-> S("error"), location |-> L(<<N(1)>>)]) }

IssueLists == UNION { [1..n -> IssuePool] : n \in 0..MaxIssues }

OperationOutcome(issue) == D([resourceType |-> S("OperationOutcome"), issue |-> issue])

Documents ==
    { Invalid,
      L(<<>>),
      D([resourceType |-> S("Patient")]),
      D([resourceType |-> S("OperationOutcome")]),
      OperationOutcome(None) }
    \cup { OperationOutcome(L(issues)) : issues \in IssueLists }

BodyText(doc) == IF doc.t = "invalid" THEN <<"<html>Bad Gateway</html>">> ELSE <<"{...}">>

Statuses == {200, 400, 404, 422, 500}

Responses ==
    { [status_code |-> status, text |-> BodyText(doc), json |-> doc] :
        status \in Statuses, doc \in Documents }

(* ---------------------------- state machine ----------------------------- *)
Init ==
    /\ pc = "idle"
    /\ args = None
    /\ locals = None
    /\ request = None
    /\ postCount = 0
    /\ elapsed = 0
    /\ response = None
    /\ exc = "none"
    /\ jsonCalled = FALSE
    /\ result = None
    /\ escaped = FALSE
    /\ validOut = None

\* the outer except clauses and the final return
Complete(l, e, timeout) ==
    \E h \in {ExceptHandlers(l, e, timeout)} :
       /\ locals' = h.locals
       /\ escaped' = h.escaped
       /\ result' = IF h.escaped THEN None ELSE FinalResult(h.locals)
       /\ pc' = IF h.escaped THEN "raised" ELSE "done"
       /\ elapsed' = 0

\* validate_fhir_resource is called; it runs up to requests.post
Call ==
    /\ pc = "idle"
    /\ \E rj \in Payloads, url \in ServerUrls, rt \in ResourceTypes,
          pu \in ProfileUrls, to \in Timeouts :
         LET a == [resource_json |-> rj, fhir_server_url |-> url, resource_type |-> rt,
                   profile_url |-> pu, timeout |-> to]
         IN  \E p \in {Prepare(a)} :
             /\ args' = a
             /\ CASE p.kind = "return" ->
                       /\ pc' = "done"
                       /\ result' = p.result
                       /\ locals' = None
                       /\ request' = None
                       /\ UNCHANGED <<postCount, elapsed, exc, escaped>>
                  [] p.kind = "raise" ->
                       /\ exc' = p.exc
                       /\ Complete(p.locals, p.exc, to)
                       /\ request' = None
                       /\ UNCHANGED postCount
                  [] p.kind = "post" ->
                       /\ pc' = "waiting"
                       /\ locals' = p.locals
                       /\ request' = p.request
                       /\ postCount' = postCount + 1
                       /\ UNCHANGED <<elapsed, exc, result, escaped>>
    /\ UNCHANGED <<response, jsonCalled, validOut>>

\* time passes while the request is outstanding
Tick ==
    /\ pc = "waiting"
    /\ elapsed < request.timeout
    /\ elapsed' = elapsed + 1
    /\ UNCHANGED <<pc, args, locals, request, postCount, response, exc,
                   jsonCalled, result, escaped, validOut>>

\* the server answers; the rest of the function runs
Respond ==
    /\ pc = "waiting"
    /\ \E resp \in Responses :
       \E h \in {HandleResponse(locals, resp)} :
         /\ response' = resp
         /\ jsonCalled' = h.json_called
         /\ exc' = h.exc
         /\ Complete(h.locals, h.exc, args.timeout)
    /\ UNCHANGED <<args, request, postCount, validOut>>

\* variant: the request is issued once more after the first timeout
TimeoutExpire_Retry ==
    /\ pc = "waiting"
    /\ elapsed = request.timeout
    /\ IF postCount < 2
       THEN /\ postCount' = postCount + 1
            /\ elapsed' = 0
            /\ UNCHANGED <<pc, locals, exc, result, escaped>>
       ELSE /\ \E e \in {"ReadTimeout", "ConnectTimeout"} :
                 /\ exc' = e
                 /\ Complete(locals, e, args.timeout)
            /\ UNCHANGED postCount
    /\ UNCHANGED <<args, request, response, jsonCalled, validOut>>

\* requests.post raises Timeout when the configured timeout expires
TimeoutExpire ==
    /\ pc = "waiting"
    /\ elapsed = request.timeout
    /\ \E e \in {"ReadTimeout", "ConnectTimeout"} :
         /\ exc' = e
         /\ Complete(locals, e, args.timeout)
    /\ UNCHANGED <<args, request, postCount, response, jsonCalled, validOut>>

\* requests.post raises another exception
TransportFail ==
    /\ pc = "waiting"
    /\ \E e \in {"ConnectionError", "TooManyRedirects", "ValueError"} :
         /\ exc' = e
         /\ Complete(locals, e, args.timeout)
    /\ UNCHANGED <<args, request, postCount, response, jsonCalled, validOut>>

\* the caller passes the returned result to valid()
Consume ==
    /\ pc = "done"
    /\ validOut' = valid(result)
    /\ pc' = "consumed"
    /\ UNCHANGED <<args, locals, request, postCount, elapsed, response, exc,
                   jsonCalled, result, escaped>>

\* the invocation is over; nothing is retained for the next one
Reset ==
    /\ pc \in {"consumed", "raised"}
    /\ pc' = "idle"
    /\ args' = None
    /\ locals' = None
    /\ request' = None
    /\ postCount' = 0
    /\ elapsed' = 0
    /\ response' = None
    /\ exc' = "none"
    /\ jsonCalled' = FALSE
    /\ result' = None
    /\ escaped' = FALSE
    /\ validOut' = None

Next ==
    \/ Call
    \/ Tick
    \/ Respond
    \/ TimeoutExpire
    \/ TransportFail
    \/ Consume
    \/ Reset

Spec == Init /\ [][Next]_vars

\* requests.post returns or raises within the configured timeout
LiveSpec == Spec /\ WF_vars(Tick) /\ WF_vars(TimeoutExpire)

(* ------------------------------ properties ------------------------------ *)
Returned == pc \in {"done", "consumed"}
HasResponse == Returned /\ response # None
TransportFailed == Returned /\ postCount = 1 /\ response = None
ParsedStatuses == {200, 400, 422}
PayloadParseFails ==
    isinstance(args.resource_json, "str") /\ args.resource_json.json = Invalid

\* the body is an OperationOutcome object answered with a status whose body is parsed
OutcomeAnswered ==
    /\ HasResponse
    /\ response.status_code \in ParsedStatuses
    /\ response.json.t = "dict"
    /\ "resourceType" \in DOMAIN response.json.v
    /\ response.json.v.resourceType = S("OperationOutcome")

EmptyOrAbsentIssues ==
    \/ "issue" \notin DOMAIN response.json.v
    \/ response.json.v.issue = L(<<>>)

IsObject(entry) == entry.t = "dict"
AllStrings(list) == \A i \in 1..Len(list.v) : list.v[i].t = "str"
WellFormedEntry(entry) ==
    IsObject(entry) => ("location" \in DOMAIN entry.v => AllStrings(entry.v.location))
ErrorIssue(entry) ==
    /\ IsObject(entry)
    /\ ("severity" \in DOMAIN entry.v => entry.v.severity \in {S("fatal"), S("error")})
ExplicitErrorIssue(entry) ==
    /\ IsObject(entry)
    /\ "severity" \in DOMAIN entry.v
    /\ entry.v.severity \in {S("fatal"), S("error")}
WarningIssue(entry) ==
    IsObject(entry) /\ "severity" \in DOMAIN entry.v /\ entry.v.severity = S("warning")
InformationIssue(entry) ==
    IsObject(entry) /\ "severity" \in DOMAIN entry.v /\ entry.v.severity = S("information")

\* the issue list of the answered document, when it is a list
AnsweredIssues == response.json.v.issue.v

WellFormedOutcomeAnswered ==
    /\ OutcomeAnswered
    /\ "issue" \in DOMAIN response.json.v
    /\ response.json.v.issue.t = "list"
    /\ \A i \in 1..Len(AnsweredIssues) : WellFormedEntry(AnsweredIssues[i])

\* the messages of the selected issues, in the order of the issue list
Bucket(selected, prefix) ==
    [k \in 1..Len(selected) |-> prefix \o BuildMessage(selected[k].v).val]

\* the parser fails part-way: a null issue list or a non-string location entry
ParserFailsPartWay ==
    /\ OutcomeAnswered
    /\ "issue" \in DOMAIN response.json.v
    /\ \/ response.json.v.issue.t = "none"
       \/ /\ response.json.v.issue.t = "list"
          /\ \E i \in 1..Len(AnsweredIssues) : ~WellFormedEntry(AnsweredIssues[i])

\* s without its trailing "/" chunks
Stripped(s) ==
    LET n == CHOOSE k \in 0..Len(s) :
                 /\ k = 0 \/ s[k] # "/"
                 /\ \A j \in (k + 1)..Len(s) : s[j] = "/"
    IN  SubSeq(s, 1, n)

\* the resourceType declared by the payload, None when there is none
Declared ==
    LET doc == IF isinstance(args.resource_json, "str")
               THEN args.resource_json.json ELSE args.resource_json
    IN  IF doc.t = "dict" /\ "resourceType" \in DOMAIN doc.v THEN doc.v.resourceType ELSE None

NonEmpty(x) == x.t = "str" /\ Len(x.v) > 0

\* C1: every returned result has is_valid true exactly when its errors
\* bucket is empty, on every path.
C1_IsValidIffNoErrors ==
    Returned => (result.is_valid <=> Len(result.errors) = 0)

C1_Witness ==
    /\ pc = "done"
    /\ HasResponse
    /\ jsonCalled
    /\ ~result.is_valid
    /\ Len(result.errors) > 0
    /\ Len(result.warnings) = 0

\* C2: no invocation ends by raising to its caller; it ends with a
\* ValidationResult value, also when the outcome parser throws.
C2_NeverRaises ==
    /\ ~escaped
    /\ pc # "raised"
    /\ Returned => DOMAIN result = {"is_valid", "errors", "warnings", "information",
                                    "resource_type", "timestamp", "operation_outcome"}

C2_Witness ==
    /\ pc = "done"
    /\ exc = "TypeError"
    /\ ParserFailsPartWay
    /\ response.json.v.issue.t = "list"

\* C3: a string payload that fails JSON parsing gives an invalid result with
\* exactly the parse-failure error, nothing else, and no HTTP request.
C3_ParseFailureShortCircuits ==
    (pc # "idle" /\ PayloadParseFails) =>
        /\ Returned
        /\ result.is_valid = FALSE
        /\ result.errors = << <<"Invalid JSON format: ", "JSONDecodeError">> >>
        /\ result.warnings = <<>>
        /\ result.information = <<>>
        /\ result.resource_type = None
        /\ result.operation_outcome = None
        /\ postCount = 0
        /\ request = None
        /\ response = None

C3_Witness == pc = "done" /\ PayloadParseFails /\ postCount = 0

\* C4: after a transport failure or a status outside {200, 400, 422} the body
\* is never parsed and the result is invalid with exactly one error and
\* nothing else; 404 gives the endpoint-not-found error, which no other
\* status gives.
C4_NoBodyParsing ==
    /\ (TransportFailed \/ (HasResponse /\ response.status_code \notin ParsedStatuses)) =>
          /\ ~jsonCalled
          /\ result.is_valid = FALSE
          /\ Len(result.errors) = 1
          /\ result.warnings = <<>>
          /\ result.information = <<>>
          /\ result.operation_outcome = None
    /\ (HasResponse /\ response.status_code = 404) => result.errors = <<MsgNotFound>>
    /\ (HasResponse /\ response.status_code # 404) =>
          \A i \in 1..Len(result.errors) : result.errors[i] # MsgNotFound

C4_Witness ==
    /\ pc = "done"
    /\ HasResponse
    /\ response.status_code = 404
    /\ response.json = OperationOutcome(L(<<>>))
    /\ result.errors = <<MsgNotFound>>

\* C5: an OperationOutcome with an empty or absent issue list, answered with
\* 200, 400 or 422, gives a valid result whose information bucket is exactly
\* the success message.
C5_EmptyIssuesSucceed ==
    (OutcomeAnswered /\ EmptyOrAbsentIssues) =>
        /\ result.is_valid = TRUE
        /\ result.errors = <<>>
        /\ result.warnings = <<>>
        /\ result.information = << <<"Validation completed successfully">> >>

C5_Witness ==
    /\ pc = "done"
    /\ OutcomeAnswered
    /\ response.status_code = 400
    /\ "issue" \notin DOMAIN response.json.v
    /\ result.is_valid

\* C6: for a well-formed outcome document each issue object puts one message
\* in the bucket of its severity (missing severity counts as error), other
\* severities and non-object entries put none, every bucket keeps the issue
\* order, and one error or fatal issue makes the result invalid.
C6_SeverityBuckets ==
    WellFormedOutcomeAnswered =>
        /\ result.errors = Bucket(SelectSeq(AnsweredIssues, ErrorIssue), <<"Error: ">>)
        /\ result.warnings = Bucket(SelectSeq(AnsweredIssues, WarningIssue), <<"Warning: ">>)
        /\ result.information =
              IF AnsweredIssues = <<>> THEN <<MsgSuccess>>
              ELSE Bucket(SelectSeq(AnsweredIssues, InformationIssue), <<"Info: ">>)
        /\ (\E i \in 1..Len(AnsweredIssues) : ExplicitErrorIssue(AnsweredIssues[i]))
              => result.is_valid = FALSE

C6_Witness ==
    /\ pc = "done"
    /\ WellFormedOutcomeAnswered
    /\ Len(AnsweredIssues) = 2
    /\ ExplicitErrorIssue(AnsweredIssues[1])
    /\ IsObject(AnsweredIssues[2])
    /\ "severity" \notin DOMAIN AnsweredIssues[2].v
    /\ Len(result.errors) = 2
    /\ result.errors[1] # result.errors[2]

\* C7: the POST goes to base/override/$validate when the override is
\* non-empty, else to base/detected/$validate when a non-empty type is
\* detected, else to base/$validate, base being the server URL without its
\* trailing "/"; the profile is only the query parameter "profile".
C7_UrlPrecedence ==
    (pc # "idle" /\ postCount = 1) =>
        LET base == Stripped(args.fhir_server_url.v) IN
        /\ request.url =
              IF NonEmpty(args.resource_type)
              THEN base \o <<"/">> \o args.resource_type.v \o <<"/", "$validate">>
              ELSE IF NonEmpty(Declared)
              THEN base \o <<"/">> \o Declared.v \o <<"/", "$validate">>
              ELSE base \o <<"/", "$validate">>
        /\ request.params =
              IF NonEmpty(args.profile_url) THEN {<<"profile", args.profile_url>>} ELSE {}
        /\ (args.fhir_server_url.v = BaseUrl /\ args.resource_type = S("Patient")
              /\ args.profile_url = ProfileUrl) =>
              /\ request.url = <<"https:", "/", "/", "example.org", "/", "fhir", "/",
                                 "Patient", "/", "$validate">>
              /\ request.params = {<<"profile", ProfileUrl>>}

C7_Witness ==
    /\ pc = "waiting"
    /\ postCount = 1
    /\ args.resource_type = S("Patient")
    /\ Declared = S("Observation")
    /\ Len(args.fhir_server_url.v) > Len(BaseUrl)
    /\ args.profile_url = ProfileUrl
    /\ request.url = <<"https:", "/", "/", "example.org", "/", "fhir", "/",
                       "Patient", "/", "$validate">>

\* C8: an invocation issues at most one POST, a timeout expiry becomes the
\* timeout error carrying the configured timeout, and an invocation that
\* waits for the server eventually returns its result.
C8_OnePostAndReturns ==
    /\ [](postCount <= 1)
    /\ []((Returned /\ IsTimeout(exc)) =>
             result.errors = <<MsgTimeout(args.timeout)>>)
    /\ ((pc = "waiting") ~> (pc = "done"))

C8_Witness ==
    /\ pc = "done"
    /\ exc = "ReadTimeout"
    /\ postCount = 1
    /\ response = None
    /\ result.errors = << <<"Request to FHIR server timed out after ",
                            ToString(args.timeout), " seconds">> >>

\* C9: when the body parses as JSON but the outcome parser fails part-way,
\* the result keeps the parsed body as operation_outcome and has exactly the
\* generic unexpected-error message, with no warnings and no information.
C9_PartialParseDiscarded ==
    ParserFailsPartWay =>
        /\ result.operation_outcome = response.json
        /\ result.errors = <<MsgUnexpected("TypeError")>>
        /\ result.warnings = <<>>
        /\ result.information = <<>>

C9_Witness ==
    /\ pc = "done"
    /\ ParserFailsPartWay
    /\ response.json.v.issue.t = "list"
    /\ Len(AnsweredIssues) = 2
    /\ WarningIssue(AnsweredIssues[1])
    /\ ~WellFormedEntry(AnsweredIssues[2])
    /\ result.operation_outcome = response.json

\* C10: valid(r) returns r's validity flag and does not fail.
C10_ValidReturnsFlag ==
    pc = "consumed" => (~validOut.raised /\ validOut.val = result.is_valid)

====
